---- MODULE Spec2Model ----
(***************************************************************************)
(* A model of src/loader/mod.rs: ElfLoader::load_kernel and load_cmdline.  *)
(*                                                                         *)
(* Guest addresses are unsigned integers of AddrBits bits (u64 in the      *)
(* source, scaled down).  Guest memory is one region [0, MemSize), as in   *)
(* the tests' create_guest_mem.  The kernel image is read as the code      *)
(* reads it: the ELF header first, then the program header table, then     *)
(* one segment per loop iteration.  Option<T> values are sets with at most *)
(* one element: {} is None and {x} is Some(x).                             *)
(***************************************************************************)
EXTENDS Integers, Sequences, FiniteSets, TLC

\* ------------------------------------------------------------- bounds
AddrBits == 4
MemSize == 4
FileLen == 2
MaxPhdrs == 2
MaxCmdLen == 2

\* ---------------------------------------------------- program constants
ELFMAG0 == 127
ELFMAG1 == 69
ELFMAG2 == 76
ELFMAG3 == 70
ELFDATA2LSB == 1
ELFDATA2MSB == 2
PT_NULL == 0
PT_LOAD == 1
EhdrSize == 64
PhdrSize == 56
EI_MAG0 == 0
EI_MAG1 == 1
EI_MAG2 == 2
EI_MAG3 == 3
EI_DATA == 5
BadByte == 51

\* ------------------------------------------------------------ helpers
AddrSpace == 2 ^ AddrBits
AddrMax == AddrSpace - 1
Addr == 0 .. AddrMax
MemAddr == 0 .. (MemSize - 1)

Min(a, b) == IF a <= b THEN a ELSE b

None == {}
Some(x) == {x}
IsSome(o) == o # {}
Unwrap(o) == CHOOSE x \in o : TRUE

\* Address::checked_add: None on wraparound.
checked_add(a, b) == IF a + b <= AddrMax THEN Some(a + b) ELSE None

\* The `+` of two u64 values: the sum when it fits; on overflow a build with
\* overflow checks panics and a build without them wraps modulo 2^AddrBits.
PlainAdd(a, b) ==
    IF a + b <= AddrMax
    THEN {[panic |-> FALSE, val |-> a + b]}
    ELSE {[panic |-> TRUE, val |-> 0],
          [panic |-> FALSE, val |-> (a + b) % AddrSpace]}

\* Result<(GuestAddress, GuestUsize)> / Result<()>, and a panic of the call.
Ok(entry, end) == [kind |-> "Ok", err |-> "", entry |-> entry, end |-> end]
Err(e) == [kind |-> "Err", err |-> e, entry |-> 0, end |-> 0]
Panicked == [kind |-> "Panic", err |-> "", entry |-> 0, end |-> 0]
NoResult == [kind |-> "None", err |-> "", entry |-> 0, end |-> 0]

\* ------------------------------------------------------- guest memory
\* GuestMemoryMmap::new(&[(GuestAddress(0), MEM_SIZE)]): zero-filled.
create_guest_mem == [a \in MemAddr |-> 0]

\* Content left in guest memory by earlier users of the region.
DirtyByte == 9
MemContents == {create_guest_mem, [a \in MemAddr |-> DirtyByte]}

\* GuestMemory::end_addr: the exclusive upper bound of the mapped region.
end_addr == MemSize

\* How many of `count` bytes starting at `addr` lie in the mapped region.
Mapped(addr, count) ==
    IF addr >= MemSize THEN 0 ELSE Min(count, MemSize - addr)

\* mem with bytes[1..n] stored at addr .. addr+n-1.
Store(m, addr, bytes, n) ==
    [a \in MemAddr |->
        IF a >= addr /\ a < addr + n THEN bytes[a - addr + 1] ELSE m[a]]

\* Bytes::write_slice: all of buf at addr, or an error; an error may leave a
\* prefix of buf in the mapped part of the range.
write_slice(m, buf, addr) ==
    IF Mapped(addr, Len(buf)) = Len(buf)
    THEN {[ok |-> TRUE, mem |-> Store(m, addr, buf, Len(buf)), n |-> Len(buf)]}
    ELSE {[ok |-> FALSE, mem |-> Store(m, addr, buf, n), n |-> n] :
            n \in 0 .. Mapped(addr, Len(buf))}

\* Bytes::read_exact_from: count bytes of the source, from its position
\* pos, to addr.  It fails when the range is not mapped or the source ends
\* early, and may then leave a prefix written.
read_exact_from(m, addr, data, pos, count) ==
    LET avail == IF pos >= Len(data) THEN 0 ELSE Min(count, Len(data) - pos)
        room == Mapped(addr, count)
        bytes == [i \in 1 .. avail |-> data[pos + i]]
    IN  IF avail = count /\ room = count
        THEN {[ok |-> TRUE, mem |-> Store(m, addr, bytes, count), n |-> count]}
        ELSE {[ok |-> FALSE, mem |-> Store(m, addr, bytes, n), n |-> n] :
                n \in 0 .. Min(avail, room)}

\* --------------------------------------------------------- load_cmdline
CmdBytes == {1, 2}
CStrs == UNION {[1 .. n -> CmdBytes] : n \in 0 .. MaxCmdLen}

\* CStr::to_bytes_with_nul and CStr::to_bytes of a string with content c.
to_bytes_with_nul(c) == Append(c, 0)
to_bytes(c) == SubSeq(to_bytes_with_nul(c), 1, Len(to_bytes_with_nul(c)) - 1)

\* The bounds check of load_cmdline: TRUE when the command line is rejected.
CmdlineOverflowsOffByOne(guest_addr, len) ==
    LET end == checked_add(guest_addr, len + 1)
    IN  end = None \/ Unwrap(end) >= end_addr

CmdlineOverflows(guest_addr, len) ==
    LET end == checked_add(guest_addr, len + 1)
    IN  end = None \/ Unwrap(end) > end_addr

\* The bytes load_cmdline hands to write_slice.
CmdlineBytesNoNul(cmdline) == to_bytes(cmdline)

CmdlineBytes(cmdline) == to_bytes_with_nul(cmdline)

\* Whether load_cmdline returns early on this length.
EmptyCmdlineNever(len) == FALSE

EmptyCmdline(len) == len = 0

\* load_cmdline as a function of the memory and its arguments: the result,
\* the memory afterwards and the writes made ([addr, len] of each).
load_cmdline(m, guest_addr, cmdline) ==
    LET len == Len(to_bytes(cmdline))
    IN  IF EmptyCmdline(len)
        THEN {[result |-> Ok(0, 0), mem |-> m, writes |-> << >>]}
        ELSE IF CmdlineOverflows(guest_addr, len)
        THEN {[result |-> Err("CommandLineOverflow"), mem |-> m, writes |-> << >>]}
        ELSE {[result |-> IF w.ok THEN Ok(0, 0) ELSE Err("CommandLineCopy"),
               mem |-> w.mem,
               writes |-> <<[seg |-> 0, addr |-> guest_addr, len |-> w.n,
                             full |-> w.ok, extent |-> None]>>] :
                w \in write_slice(m, CmdlineBytes(cmdline), guest_addr)}

\* ---------------------------------------------------------- the image
\* The bytes of the kernel image file: the byte at offset o is FileData[o+1].
FileData == [i \in 1 .. FileLen |-> i]

\* e_ident of a well-formed ELF64 little-endian image.
GoodIdent ==
    [i \in {EI_MAG0, EI_MAG1, EI_MAG2, EI_MAG3, EI_DATA} |->
        CASE i = EI_MAG0 -> ELFMAG0
          [] i = EI_MAG1 -> ELFMAG1
          [] i = EI_MAG2 -> ELFMAG2
          [] i = EI_MAG3 -> ELFMAG3
          [] OTHER -> ELFDATA2LSB]

\* The identification bytes an image may carry: each magic byte right or
\* overwritten (as test::bad_magic does), the data encoding LSB or MSB.
Idents ==
    {[i \in {EI_MAG0, EI_MAG1, EI_MAG2, EI_MAG3, EI_DATA} |->
        IF i = EI_DATA THEN d
        ELSE IF i \in bad THEN BadByte ELSE GoodIdent[i]] :
        d \in {ELFDATA2LSB, ELFDATA2MSB},
        bad \in {{}, {EI_MAG0}, {EI_MAG1}, {EI_MAG2}, {EI_MAG3}}}

Ehdrs ==
    [e_ident : Idents,
     e_entry : {0, 2, AddrMax},
     e_phoff : {EhdrSize - 1, EhdrSize},
     e_phentsize : {PhdrSize, EhdrSize},
     e_phnum : 0 .. MaxPhdrs]

\* Elf64_Ehdr::default(): all zero.
DefaultEhdr ==
    [e_ident |-> [i \in {EI_MAG0, EI_MAG1, EI_MAG2, EI_MAG3, EI_DATA} |-> 0],
     e_entry |-> 0, e_phoff |-> 0, e_phentsize |-> 0, e_phnum |-> 0]

\* The program headers an image may carry.  The loader reads no field of an
\* entry whose type is not PT_LOAD, so one such entry stands for all.
Phdrs ==
    [p_type : {PT_LOAD},
     p_offset : {0, FileLen - 1},
     p_paddr : {0, 1, AddrMax},
     p_filesz : {0, 1, 2},
     p_memsz : {2, AddrMax}]
    \cup
    {[p_type |-> PT_NULL, p_offset |-> 0, p_paddr |-> 0, p_filesz |-> 2,
      p_memsz |-> AddrMax]}

PhdrTables(n) == [1 .. n -> Phdrs]

KernelStarts == {None, Some(MemSize - 2)}
LowestKernelStarts == {None, Some(1)}

\* ---------------------------------------------------------- load_kernel
\* The sanity checks of the ELF header, in the order of the code: the error
\* of the first check that fails, or "" when all pass.
SanityChecksSwapped(h, lowest) ==
    IF h.e_ident[EI_DATA] # ELFDATA2LSB THEN "BigEndianElfOnLittle"
    ELSE IF \/ h.e_ident[EI_MAG0] # ELFMAG0
            \/ h.e_ident[EI_MAG1] # ELFMAG1
            \/ h.e_ident[EI_MAG2] # ELFMAG2
            \/ h.e_ident[EI_MAG3] # ELFMAG3
    THEN "InvalidElfMagicNumber"
    ELSE IF h.e_phoff < EhdrSize THEN "InvalidProgramHeaderOffset"
    ELSE IF h.e_phentsize # PhdrSize THEN "InvalidProgramHeaderSize"
    ELSE IF IsSome(lowest) /\ h.e_entry < Unwrap(lowest)
    THEN "InvalidEntryAddress"
    ELSE ""

SanityChecks(h, lowest) ==
    IF \/ h.e_ident[EI_MAG0] # ELFMAG0
       \/ h.e_ident[EI_MAG1] # ELFMAG1
       \/ h.e_ident[EI_MAG2] # ELFMAG2
       \/ h.e_ident[EI_MAG3] # ELFMAG3
    THEN "InvalidElfMagicNumber"
    ELSE IF h.e_ident[EI_DATA] # ELFDATA2LSB THEN "BigEndianElfOnLittle"
    ELSE IF h.e_phentsize # PhdrSize THEN "InvalidProgramHeaderSize"
    ELSE IF h.e_phoff < EhdrSize THEN "InvalidProgramHeaderOffset"
    ELSE IF IsSome(lowest) /\ h.e_entry < Unwrap(lowest)
    THEN "InvalidEntryAddress"
    ELSE ""

\* kernel_loaded_addr: start + e_entry (a plain `+`), or e_entry.
KernelLoadedAddrFromLowest(start, lowest, h) ==
    IF IsSome(lowest)
    THEN PlainAdd(Unwrap(lowest), h.e_entry)
    ELSE IF IsSome(start) THEN PlainAdd(Unwrap(start), h.e_entry)
    ELSE {[panic |-> FALSE, val |-> h.e_entry]}

KernelLoadedAddr(start, lowest, h) ==
    IF IsSome(start)
    THEN PlainAdd(Unwrap(start), h.e_entry)
    ELSE {[panic |-> FALSE, val |-> h.e_entry]}

\* The order in which `for phdr in &phdrs` visits a table of n entries.
SegmentOrderReversed(n) == [i \in 1 .. n |-> n + 1 - i]

SegmentOrder(n) == [i \in 1 .. n |-> i]

\* Whether the loop skips this program header.
Skipped(phdr) == phdr.p_type # PT_LOAD \/ phdr.p_filesz = 0

\* mem_offset: start.checked_add(p_paddr), or p_paddr.
MemOffsetIgnoringStart(start, phdr) == Some(phdr.p_paddr)

MemOffset(start, phdr) ==
    IF IsSome(start)
    THEN checked_add(Unwrap(start), phdr.p_paddr)
    ELSE Some(phdr.p_paddr)

\* kernel_end after a segment: mem_offset + p_memsz (a plain `+`).
KernelEnd(prev, mem_offset, phdr) == PlainAdd(mem_offset, phdr.p_memsz)

VARIABLES
    pc,                  \* where the call in progress stands
    op,                  \* the function called
    mem,                 \* guest_mem
    mem0,                \* guest_mem when the call began
    kernel_start,        \* load_kernel's argument
    lowest_kernel_start, \* load_kernel's argument
    ehdr,                \* the ELF header read
    phdrs,               \* the program headers read
    idx,                 \* how far the loop over phdrs has come
    kernel_loaded_addr,
    kernel_end,
    guest_addr,          \* load_cmdline's argument
    cmdline,             \* load_cmdline's argument (its content)
    io,                  \* the operations made on kernel_image, in order
    writes,              \* the guest memory writes of the call, in order
    result               \* what the call returned

vars == <<pc, op, mem, mem0, kernel_start, lowest_kernel_start, ehdr, phdrs,
          idx, kernel_loaded_addr, kernel_end, guest_addr, cmdline, io,
          writes, result>>

Init ==
    /\ pc = "idle"
    /\ op = "none"
    /\ mem \in MemContents
    /\ mem0 = mem
    /\ kernel_start = None
    /\ lowest_kernel_start = None
    /\ ehdr = DefaultEhdr
    /\ phdrs = << >>
    /\ idx = 1
    /\ kernel_loaded_addr = 0
    /\ kernel_end = 0
    /\ guest_addr = 0
    /\ cmdline = << >>
    /\ io = << >>
    /\ writes = << >>
    /\ result = NoResult

IoOp(what, at) == [op |-> what, at |-> at]

\* The call returns r (or panics): nothing else changes.
Finish(r) ==
    /\ pc' = "done"
    /\ result' = r

\* load_cmdline(guest_mem, guest_addr, cmdline), lines 197-219.
LoadCmdline ==
    /\ pc = "idle"
    /\ \E a \in Addr, c \in CStrs :
        \E out \in load_cmdline(mem, a, c) :
            /\ op' = "load_cmdline"
            /\ guest_addr' = a
            /\ cmdline' = c
            /\ mem0' = mem
            /\ mem' = out.mem
            /\ writes' = out.writes
            /\ Finish(out.result)
    /\ UNCHANGED <<kernel_start, lowest_kernel_start, ehdr, phdrs, idx,
                   kernel_loaded_addr, kernel_end, io>>

\* ElfLoader::load_kernel is entered with its arguments.
CallLoadKernel ==
    /\ pc = "idle"
    /\ \E ks \in KernelStarts, lks \in LowestKernelStarts :
        /\ kernel_start' = ks
        /\ lowest_kernel_start' = lks
    /\ op' = "load_kernel"
    /\ mem0' = mem
    /\ pc' = "read_ehdr"
    /\ UNCHANGED <<mem, ehdr, phdrs, idx, kernel_loaded_addr, kernel_end,
                   guest_addr, cmdline, io, writes, result>>

\* Lines 111-118: seek to the start and read the ELF header.
ReadElfHeader ==
    /\ pc = "read_ehdr"
    /\ \/ /\ io' = Append(io, IoOp("seek_failed", 0))
          /\ Finish(Err("SeekElfStart"))
          /\ UNCHANGED ehdr
       \/ /\ io' = io \o <<IoOp("seek", 0), IoOp("read_failed", 0)>>
          /\ Finish(Err("ReadElfHeader"))
          /\ UNCHANGED ehdr
       \/ /\ \E h \in Ehdrs : ehdr' = h
          /\ io' = io \o <<IoOp("seek", 0), IoOp("read_ehdr", 0)>>
          /\ pc' = "sanity"
          /\ UNCHANGED result
    /\ UNCHANGED <<op, mem, mem0, kernel_start, lowest_kernel_start, phdrs,
                   idx, kernel_loaded_addr, kernel_end, guest_addr, cmdline,
                   writes>>

\* Lines 120-147: the sanity checks, then kernel_loaded_addr.
CheckElfHeaderLate ==
    /\ pc = "sanity"
    /\ IF SanityChecks(ehdr, lowest_kernel_start) # ""
       THEN /\ Finish(Err(SanityChecks(ehdr, lowest_kernel_start)))
            /\ io' = io \o <<IoOp("seek", ehdr.e_phoff),
                             IoOp("read_phdrs", ehdr.e_phnum)>>
            /\ UNCHANGED kernel_loaded_addr
       ELSE \E o \in KernelLoadedAddr(kernel_start, lowest_kernel_start, ehdr) :
                /\ io' = io
                /\ IF o.panic
                   THEN Finish(Panicked) /\ UNCHANGED kernel_loaded_addr
                   ELSE /\ kernel_loaded_addr' = o.val
                        /\ pc' = "read_phdrs"
                        /\ UNCHANGED result
    /\ UNCHANGED <<op, mem, mem0, kernel_start, lowest_kernel_start, ehdr,
                   phdrs, idx, kernel_end, guest_addr, cmdline, writes>>

CheckElfHeader ==
    /\ pc = "sanity"
    /\ IF SanityChecks(ehdr, lowest_kernel_start) # ""
       THEN /\ Finish(Err(SanityChecks(ehdr, lowest_kernel_start)))
            /\ UNCHANGED kernel_loaded_addr
       ELSE \E o \in KernelLoadedAddr(kernel_start, lowest_kernel_start, ehdr) :
                IF o.panic
                THEN Finish(Panicked) /\ UNCHANGED kernel_loaded_addr
                ELSE /\ kernel_loaded_addr' = o.val
                     /\ pc' = "read_phdrs"
                     /\ UNCHANGED result
    /\ UNCHANGED <<op, mem, mem0, kernel_start, lowest_kernel_start, ehdr,
                   phdrs, idx, kernel_end, guest_addr, cmdline, io, writes>>

\* Lines 149-158: seek to e_phoff and read e_phnum program headers.
ReadProgramHeaders ==
    /\ pc = "read_phdrs"
    /\ \/ /\ io' = Append(io, IoOp("seek_failed", ehdr.e_phoff))
          /\ Finish(Err("SeekProgramHeader"))
          /\ UNCHANGED <<phdrs, kernel_end, idx>>
       \/ /\ io' = io \o <<IoOp("seek", ehdr.e_phoff),
                            IoOp("read_failed", ehdr.e_phnum)>>
          /\ Finish(Err("ReadProgramHeader"))
          /\ UNCHANGED <<phdrs, kernel_end, idx>>
       \/ /\ \E t \in PhdrTables(ehdr.e_phnum) : phdrs' = t
          /\ io' = io \o <<IoOp("seek", ehdr.e_phoff),
                            IoOp("read_phdrs", ehdr.e_phnum)>>
          /\ kernel_end' = 0
          /\ idx' = 1
          /\ pc' = "load"
          /\ UNCHANGED result
    /\ UNCHANGED <<op, mem, mem0, kernel_start, lowest_kernel_start, ehdr,
                   kernel_loaded_addr, guest_addr, cmdline, writes>>

\* Lines 161-184: one iteration of the loop over the program headers.
LoadSegment ==
    /\ pc = "load"
    /\ idx <= Len(phdrs)
    /\ LET seg == SegmentOrder(Len(phdrs))[idx]
           phdr == phdrs[seg]
           mem_offset == MemOffset(kernel_start, phdr)
       IN  \/ /\ Skipped(phdr)
              /\ idx' = idx + 1
              /\ UNCHANGED <<pc, mem, kernel_end, io, writes, result>>
           \/ /\ ~Skipped(phdr)
              /\ io' = Append(io, IoOp("seek_failed", phdr.p_offset))
              /\ Finish(Err("SeekKernelStart"))
              /\ UNCHANGED <<mem, kernel_end, idx, writes>>
           \/ /\ ~Skipped(phdr)
              /\ mem_offset = None
              /\ io' = Append(io, IoOp("seek", phdr.p_offset))
              /\ Finish(Err("InvalidProgramHeaderAddress"))
              /\ UNCHANGED <<mem, kernel_end, idx, writes>>
           \/ /\ ~Skipped(phdr)
              /\ mem_offset # None
              /\ \E r \in read_exact_from(mem, Unwrap(mem_offset), FileData,
                                          phdr.p_offset, phdr.p_filesz),
                    e \in KernelEnd(kernel_end, Unwrap(mem_offset), phdr) :
                    LET w == [seg |-> seg, addr |-> Unwrap(mem_offset),
                              len |-> r.n, full |-> r.ok,
                              extent |-> IF r.ok /\ ~e.panic
                                         THEN Some(e.val) ELSE None]
                    IN  /\ mem' = r.mem
                        /\ io' = io \o <<IoOp("seek", phdr.p_offset),
                                         IoOp("read_segment", r.n)>>
                        /\ writes' = Append(writes, w)
                        /\ IF ~r.ok
                           THEN /\ Finish(Err("ReadKernelImage"))
                                /\ UNCHANGED <<kernel_end, idx>>
                           ELSE IF e.panic
                           THEN /\ Finish(Panicked)
                                /\ UNCHANGED <<kernel_end, idx>>
                           ELSE /\ kernel_end' = e.val
                                /\ idx' = idx + 1
                                /\ UNCHANGED <<pc, result>>
    /\ UNCHANGED <<op, mem0, kernel_start, lowest_kernel_start, ehdr, phdrs,
                   kernel_loaded_addr, guest_addr, cmdline>>

\* Line 186: Ok((kernel_loaded_addr, kernel_end)).
ReturnOk ==
    /\ pc = "load"
    /\ idx > Len(phdrs)
    /\ Finish(Ok(kernel_loaded_addr, kernel_end))
    /\ UNCHANGED <<op, mem, mem0, kernel_start, lowest_kernel_start, ehdr,
                   phdrs, idx, kernel_loaded_addr, kernel_end, guest_addr,
                   cmdline, io, writes>>

Next ==
    \/ LoadCmdline
    \/ CallLoadKernel
    \/ ReadElfHeader
    \/ CheckElfHeader
    \/ ReadProgramHeaders
    \/ LoadSegment
    \/ ReturnOk

Spec == Init /\ [][Next]_vars

\* -------------------------------------------------------------- claims
KernelDone == op = "load_kernel" /\ pc = "done"
KernelOk == KernelDone /\ result.kind = "Ok"
CmdlineDone == op = "load_cmdline" /\ pc = "done"
CmdlineOk == CmdlineDone /\ result.kind = "Ok"

SetMax(S) == CHOOSE x \in S : \A y \in S : y <= x
SetMin(S) == CHOOSE x \in S : \A y \in S : x <= y

\* The guest address program header k targets, as a natural number.
Target(k) ==
    IF IsSome(kernel_start)
    THEN Unwrap(kernel_start) + phdrs[k].p_paddr
    ELSE phdrs[k].p_paddr

\* The program headers with type LOAD and a nonzero file size.
Processed ==
    {k \in DOMAIN phdrs : phdrs[k].p_type = PT_LOAD /\ phdrs[k].p_filesz # 0}

Extent(k) == Target(k) + phdrs[k].p_memsz

HighestOccupied ==
    IF Processed = {} THEN 0 ELSE SetMax({Extent(k) : k \in Processed})

\* The guest addresses segment k's file bytes go to.
Range(k) == Target(k) .. (Target(k) + phdrs[k].p_filesz - 1)

\* The file byte segment k puts at guest address a.
SegmentByte(k, a) == FileData[phdrs[k].p_offset + (a - Target(k)) + 1]

\* C1: on success the second returned value is the maximum of target +
\* p_memsz over the processed LOAD segments (0 when there is none).  Stated
\* for the images where no such sum exceeds the address width.
C1_HighestOccupied ==
    (KernelOk /\ \A k \in Processed : Extent(k) <= AddrMax)
        => result.end = HighestOccupied

\* The five format checks, numbered in the order the claim gives them.
FormatKinds ==
    <<"InvalidElfMagicNumber", "BigEndianElfOnLittle",
      "InvalidProgramHeaderSize", "InvalidProgramHeaderOffset",
      "InvalidEntryAddress">>

FormatKindSet == {FormatKinds[i] : i \in DOMAIN FormatKinds}

Violated(h, lowest) ==
    {i \in DOMAIN FormatKinds :
        CASE i = 1 -> <<h.e_ident[EI_MAG0], h.e_ident[EI_MAG1],
                        h.e_ident[EI_MAG2], h.e_ident[EI_MAG3]>>
                      # <<ELFMAG0, ELFMAG1, ELFMAG2, ELFMAG3>>
          [] i = 2 -> h.e_ident[EI_DATA] # ELFDATA2LSB
          [] i = 3 -> h.e_phentsize # PhdrSize
          [] i = 4 -> h.e_phoff < EhdrSize
          [] OTHER -> \E l \in lowest : h.e_entry < l}

HeaderRead == \E i \in DOMAIN io : io[i].op = "read_ehdr"

\* C2: once the header has been read and checked, a header violating some
\* of the five checks has made the call fail with the kind of the earliest
\* violated check, and a header violating none is not rejected with any of
\* the five kinds; nor is a call whose header could not be read.
C2_ValidationOrder ==
    op = "load_kernel" =>
        IF HeaderRead /\ pc # "sanity"
        THEN LET v == Violated(ehdr, lowest_kernel_start)
             IN  IF v = {}
                 THEN result.err \notin FormatKindSet
                 ELSE pc = "done" /\ result = Err(FormatKinds[SetMin(v)])
        ELSE result.err \notin FormatKindSet

C2_Witness ==
    /\ KernelDone
    /\ {2, 4, 5} \subseteq Violated(ehdr, lowest_kernel_start)
    /\ 1 \notin Violated(ehdr, lowest_kernel_start)
    /\ result = Err("BigEndianElfOnLittle")

\* C3: a call that fails with a format kind has written nothing to guest
\* memory and has only sought to the start of the image and read the ELF
\* header: no program header, no segment.
C3_RejectWritesNothing ==
    (KernelDone /\ result.kind = "Err" /\ result.err \in FormatKindSet) =>
        /\ mem = mem0
        /\ writes = << >>
        /\ phdrs = << >>
        /\ io = <<IoOp("seek", 0), IoOp("read_ehdr", 0)>>

C3_Witness ==
    /\ KernelDone
    /\ result = Err("InvalidEntryAddress")
    /\ \E l \in lowest_kernel_start : l > ehdr.e_entry
    /\ ehdr.e_phnum > 0
    /\ mem0 # create_guest_mem

\* A well-formed image's LOAD segments occupy pairwise disjoint guest
\* ranges (overlap is what spec 4.1 calls a malformed image).
DisjointSegments ==
    \A j, k \in Processed : j # k => Range(j) \cap Range(k) = {}

\* C4: after a successful load of an image whose LOAD segments are
\* disjoint, every LOAD segment's p_filesz bytes from file offset p_offset
\* are in guest memory at its target address (base + p_paddr, or p_paddr).
C4_SegmentBytes ==
    (KernelOk /\ DisjointSegments) =>
        \A k \in DOMAIN phdrs :
            phdrs[k].p_type = PT_LOAD =>
                \A a \in Range(k) :
                    a \in MemAddr /\ mem[a] = SegmentByte(k, a)

C4_Witness ==
    /\ KernelOk
    /\ IsSome(kernel_start)
    /\ DisjointSegments
    /\ \E j, k \in Processed : phdrs[j].p_offset # phdrs[k].p_offset

\* C5: on success the returned entry address is e_entry without a base and
\* base + e_entry, as a value of the address width, with one; the lowest
\* entry address has no part in it.
C5_EntryAddress ==
    KernelOk =>
        result.entry =
            IF IsSome(kernel_start)
            THEN (Unwrap(kernel_start) + ehdr.e_entry) % AddrSpace
            ELSE ehdr.e_entry

C5_Witness ==
    /\ KernelOk
    /\ IsSome(kernel_start)
    /\ IsSome(lowest_kernel_start)
    /\ ehdr.e_entry > 0
    /\ result.entry = Unwrap(kernel_start) + ehdr.e_entry
    /\ result.entry # Unwrap(lowest_kernel_start) + ehdr.e_entry

\* C6: a non-empty command line passes the bounds check exactly when
\* address + len + 1 fits the address width and is at most the end address;
\* then the call succeeds, and otherwise it fails with CommandLineOverflow
\* and guest memory is as before.
C6_CmdlineBounds ==
    (CmdlineDone /\ Len(cmdline) > 0) =>
        IF /\ guest_addr + Len(cmdline) + 1 <= AddrMax
           /\ guest_addr + Len(cmdline) + 1 <= MemSize
        THEN result.kind = "Ok"
        ELSE /\ result = Err("CommandLineOverflow")
             /\ mem = mem0
             /\ writes = << >>

C6_Witness ==
    /\ CmdlineOk
    /\ Len(cmdline) > 0
    /\ guest_addr + Len(cmdline) + 1 = MemSize

\* C7: an empty command line succeeds and writes nothing, whatever the
\* address.
C7_EmptyCmdline ==
    (CmdlineDone /\ Len(cmdline) = 0) =>
        /\ result.kind = "Ok"
        /\ mem = mem0
        /\ writes = << >>

C7_Witness ==
    /\ CmdlineOk
    /\ Len(cmdline) = 0
    /\ guest_addr >= MemSize
    /\ mem0 # create_guest_mem

\* C8: after a successful load of a non-empty command line at A, memory
\* holds its bytes at A .. A+len-1 and 0 at A+len, and is as before
\* everywhere else.
C8_CmdlineWritten ==
    (CmdlineOk /\ Len(cmdline) > 0) =>
        \A a \in MemAddr :
            mem[a] = IF a >= guest_addr /\ a < guest_addr + Len(cmdline)
                     THEN cmdline[a - guest_addr + 1]
                     ELSE IF a = guest_addr + Len(cmdline) THEN 0
                     ELSE mem0[a]

C8_Witness ==
    /\ CmdlineOk
    /\ Len(cmdline) > 1
    /\ guest_addr > 0
    /\ mem0 # create_guest_mem
    /\ mem[guest_addr + Len(cmdline)] = 0

\* C9: no address computation of load_kernel wraps: a base + p_paddr that
\* overflows fails the call with InvalidProgramHeaderAddress before the
\* segment is written, and for each segment written neither the range
\* written nor the extent kept for the result is below its target address.
C9_NoWraparound ==
    op = "load_kernel" =>
        /\ \A i \in DOMAIN writes :
            /\ Target(writes[i].seg) <= AddrMax
            /\ writes[i].addr = Target(writes[i].seg)
            /\ writes[i].addr + writes[i].len <= AddrSpace
            /\ \A e \in writes[i].extent : e >= writes[i].addr
        /\ (KernelDone /\ result = Err("InvalidProgramHeaderAddress")) =>
            /\ idx \in DOMAIN phdrs
            /\ Target(idx) > AddrMax
            /\ \A i \in DOMAIN writes : writes[i].seg # idx

\* The processed segment latest in the table whose range holds a.
LastCovering(a) == SetMax({k \in Processed : a \in Range(k)})

\* The segments written in full, in the order of their writes.
FullWrites == SelectSeq(writes, LAMBDA w : w.full)

\* The processed segments before table position k, in table order.
RECURSIVE ProcessedBefore(_)
ProcessedBefore(k) ==
    IF k <= 1 THEN << >>
    ELSE IF (k - 1) \in Processed
         THEN Append(ProcessedBefore(k - 1), k - 1)
         ELSE ProcessedBefore(k - 1)

SegmentErrors == {"SeekKernelStart", "InvalidProgramHeaderAddress", "ReadKernelImage"}

\* C10: segments are written in table order and overlap is not rejected:
\* after a successful call each guest byte covered by processed segments
\* holds the byte of the latest of them in the table, and the others are as
\* before; a call failing on segment k has written exactly the processed
\* segments before k in full, and fails only for a seek failure, an address
\* overflow or a copy that cannot complete.
C10_FileOrder ==
    op = "load_kernel" =>
        /\ \A i, j \in DOMAIN writes : i < j => writes[i].seg < writes[j].seg
        /\ KernelOk =>
            /\ [i \in DOMAIN FullWrites |-> FullWrites[i].seg]
                    = ProcessedBefore(Len(phdrs) + 1)
            /\ \A a \in MemAddr :
                mem[a] = IF \E k \in Processed : a \in Range(k)
                         THEN SegmentByte(LastCovering(a), a)
                         ELSE mem0[a]
        /\ (KernelDone /\ result.kind = "Err" /\ result.err \in SegmentErrors) =>
            /\ idx \in Processed
            /\ [i \in DOMAIN FullWrites |-> FullWrites[i].seg]
                    = ProcessedBefore(idx)
            /\ \A i \in DOMAIN writes : writes[i].seg <= idx
            /\ CASE result.err = "SeekKernelStart" ->
                        io[Len(io)] = IoOp("seek_failed", phdrs[idx].p_offset)
                 [] result.err = "InvalidProgramHeaderAddress" ->
                        Target(idx) > AddrMax
                 [] OTHER ->
                        \/ Target(idx) + phdrs[idx].p_filesz > MemSize
                        \/ phdrs[idx].p_offset + phdrs[idx].p_filesz > FileLen

C10_Witness ==
    /\ KernelOk
    /\ \E j, k \in Processed :
        /\ j < k
        /\ \E a \in Range(j) \cap Range(k) :
            /\ SegmentByte(j, a) # SegmentByte(k, a)
            /\ mem[a] = SegmentByte(k, a)

====
